---- MODULE Spec2Model ----
(***************************************************************************)
(* A model of jsonref.py: the URI-keyed document store (_URIDict), the     *)
(* Dereferencer (dereference / remote / resolve_pointer), the lazy proxy   *)
(* RefObject with its `dereferencing` wrapper, and the loaders.            *)
(*                                                                         *)
(* Text is modelled as a sequence of one-character strings, so that the    *)
(* string operations of the program (lstrip, split, replace, unquote,      *)
(* urlsplit, geturl) are computed character by character.                  *)
(*                                                                         *)
(* A JSON value is a record [t |-> tag, v |-> payload]:                    *)
(*   "obj"  v is a function from keys (texts) to JSON values  (dict)       *)
(*   "arr"  v is a sequence of JSON values                    (list)       *)
(*   "str"  v is a text                                       (str)        *)
(*   "num"  v is an integer                                   (int)        *)
(*   "bool" v is 0 or 1                                       (bool)       *)
(*   "null" v is 0                                            (None)       *)
(***************************************************************************)
EXTENDS Integers, Sequences, FiniteSets, TLC

(***************************************************************************)
(* Text helpers: the str methods the program calls.                        *)
(***************************************************************************)

\* s[i:] of Python, i counted from 0
Drop(s, i) == IF i >= Len(s) THEN <<>> ELSE SubSeq(s, i + 1, Len(s))

\* s[:i] of Python
Take(s, i) == IF i >= Len(s) THEN s ELSE SubSeq(s, 1, i)

\* s.startswith(p)
StartsWith(s, p) == Len(s) >= Len(p) /\ SubSeq(s, 1, Len(p)) = p

\* s.find(c) + 1 for a single character c: the 1-based position of the first
\* occurrence, 0 when there is none
Find(s, c) ==
  IF \E i \in 1..Len(s) : s[i] = c
  THEN CHOOSE i \in 1..Len(s) : s[i] = c /\ \A j \in 1..(i - 1) : s[j] # c
  ELSE 0

\* c in s, for a single character c
HasChar(s, c) == \E i \in 1..Len(s) : s[i] = c

\* p in s, for texts: the substring test of str.__contains__
IsSubstr(p, s) == \E i \in 0..(Len(s) - Len(p)) : SubSeq(s, i + 1, i + Len(p)) = p

RECURSIVE LStrip(_, _)
\* s.lstrip(c): every leading c is removed
LStrip(s, c) ==
  IF s # <<>> /\ s[1] = c THEN LStrip(Tail(s), c) ELSE s

RECURSIVE Split(_, _)
\* s.split(c): "" splits into [""]
Split(s, c) ==
  LET i == Find(s, c) IN
  IF i = 0 THEN <<s>>
  ELSE <<SubSeq(s, 1, i - 1)>> \o Split(Drop(s, i), c)

RECURSIVE Replace(_, _, _)
\* s.replace(old, new): left to right, non-overlapping; old is not empty
Replace(s, old, new) ==
  IF Len(s) < Len(old) THEN s
  ELSE IF StartsWith(s, old)
       THEN new \o Replace(Drop(s, Len(old)), old, new)
       ELSE <<s[1]>> \o Replace(Tail(s), old, new)

UpperCase == <<"A", "B", "C", "D", "E", "F", "G", "H", "I", "J", "K", "L", "M",
               "N", "O", "P", "Q", "R", "S", "T", "U", "V", "W", "X", "Y", "Z">>

LowerCase == <<"a", "b", "c", "d", "e", "f", "g", "h", "i", "j", "k", "l", "m",
               "n", "o", "p", "q", "r", "s", "t", "u", "v", "w", "x", "y", "z">>

Digits == <<"0", "1", "2", "3", "4", "5", "6", "7", "8", "9">>

Range(s) == {s[i] : i \in 1..Len(s)}

\* s.lower()
Lower(s) ==
  [i \in 1..Len(s) |->
     IF s[i] \in Range(UpperCase)
     THEN LowerCase[CHOOSE k \in 1..Len(UpperCase) : UpperCase[k] = s[i]]
     ELSE s[i]]

(***************************************************************************)
(* urllib's unquote: %xx escapes are replaced by the character they name;  *)
(* a % not followed by two hex digits stays.                               *)
(***************************************************************************)

HexDigits == Range(Digits) \cup {"a", "b", "c", "d", "e", "f"}
                           \cup {"A", "B", "C", "D", "E", "F"}

HexVal(c) ==
  IF c \in Range(Digits)
  THEN (CHOOSE k \in 1..Len(Digits) : Digits[k] = c) - 1
  ELSE 9 + (CHOOSE k \in 1..6 : LowerCase[k] = c \/ UpperCase[k] = c)

\* the printable ASCII characters, from code 32 to code 126 (the double quote,
\* the backslash and the backtick are written as tokens)
Ascii == <<" ", "!", "<quote>", "#", "$", "%", "&", "'", "(", ")", "*", "+", ",",
           "-", ".", "/">> \o Digits \o <<":", ";", "<", "=", ">", "?", "@">>
         \o UpperCase \o <<"[", "<backslash>", "]", "^", "_", "<backtick>">>
         \o LowerCase \o <<"{", "|", "}", "~">>

\* the character of a byte; one token stands for every byte that is not a
\* printable ASCII character (a control character, or the replacement
\* character that errors='replace' gives for a byte above 127)
Chr(n) == IF n >= 32 /\ n <= 126 THEN Ascii[n - 31] ELSE "<?>"

RECURSIVE unquote(_)
unquote(s) ==
  IF s = <<>> THEN <<>>
  ELSE IF s[1] = "%" /\ Len(s) >= 3 /\ s[2] \in HexDigits /\ s[3] \in HexDigits
       THEN <<Chr(16 * HexVal(s[2]) + HexVal(s[3]))>> \o unquote(Drop(s, 3))
       ELSE <<s[1]>> \o unquote(Tail(s))

(***************************************************************************)
(* JSON values.                                                            *)
(***************************************************************************)

Obj(f) == [t |-> "obj", v |-> f]
Arr(s) == [t |-> "arr", v |-> s]
Str(s) == [t |-> "str", v |-> s]
Num(n) == [t |-> "num", v |-> n]
Bool(b) == [t |-> "bool", v |-> IF b THEN 1 ELSE 0]
Null == [t |-> "null", v |-> 0]

\* the outcome of a call: a value, or the exception it raised
Ok(val) == [err |-> "none", val |-> val]
Raise(kind, val) == [err |-> kind, val |-> val]

(***************************************************************************)
(* Dereferencer.resolve_pointer                                            *)
(***************************************************************************)

\* `part in document` (the operator `in` on each Python type): "True", "False",
\* or "TypeError" when the type supports neither __contains__ nor iteration
Contains(document, part) ==
  CASE document.t = "obj" ->
         IF part \in DOMAIN document.v THEN "True" ELSE "False"
    [] document.t = "arr" ->
         IF \E i \in 1..Len(document.v) : document.v[i] = Str(part)
         THEN "True" ELSE "False"
    [] document.t = "str" ->
         IF IsSubstr(part, document.v) THEN "True" ELSE "False"
    [] OTHER -> "TypeError"

\* `document[part]` with a str `part`: only a dict can be indexed by a str
GetItem(document, part) ==
  IF document.t = "obj"
  THEN IF part \in DOMAIN document.v
       THEN Ok(document.v[part])
       ELSE Raise("KeyError", Str(part))
  ELSE Raise("TypeError", Str(part))

\* the tokens of a pointer (line 95)
Parts(pointer) ==
  IF pointer # <<>> THEN Split(unquote(LStrip(pointer, "/")), "/") ELSE <<>>

\* an unescaping that replaces ~0 before ~1
Unescape_swapped(part) == Replace(Replace(part, <<"~", "0">>, <<"~">>), <<"~", "1">>, <<"/">>)

\* the unescaping of one token (line 98)
Unescape(part) == Replace(Replace(part, <<"~", "1">>, <<"/">>), <<"~", "0">>, <<"~">>)

RECURSIVE Walk(_, _, _)
\* the loop of lines 97 to 107 over the tokens still to be walked
Walk(document, parts, pointer) ==
  IF parts = <<>> THEN Ok(document)
  ELSE LET part == Unescape(Head(parts))
           has  == Contains(document, part)
       IN  IF has = "TypeError" THEN Raise("TypeError", Str(pointer))
           ELSE IF has = "False" THEN Raise("LookupError", Str(pointer))
           ELSE LET next == GetItem(document, part) IN
                IF next.err # "none" THEN next
                ELSE Walk(next.val, Tail(parts), pointer)

resolve_pointer(document, pointer) == Walk(document, Parts(pointer), pointer)

(***************************************************************************)
(* urllib.parse, as the program uses it: urlsplit(uri).geturl() in         *)
(* _URIDict.normalize, urldefrag in Dereferencer.dereference and urljoin   *)
(* in RefObject.__init__.  The texts of the model hold no whitespace,      *)
(* control characters or brackets, so urlsplit's stripping of those and    *)
(* its checks of a bracketed host are left out.                            *)
(***************************************************************************)

scheme_chars == Range(LowerCase) \cup Range(UpperCase) \cup Range(Digits)
                \cup {"+", "-", "."}

uses_relative ==
  {<<>>, <<"f", "t", "p">>, <<"h", "t", "t", "p">>,
   <<"g", "o", "p", "h", "e", "r">>, <<"n", "n", "t", "p">>,
   <<"i", "m", "a", "p">>, <<"w", "a", "i", "s">>, <<"f", "i", "l", "e">>,
   <<"h", "t", "t", "p", "s">>, <<"s", "h", "t", "t", "p">>,
   <<"m", "m", "s">>, <<"p", "r", "o", "s", "p", "e", "r", "o">>,
   <<"r", "t", "s", "p">>, <<"r", "t", "s", "p", "s">>,
   <<"r", "t", "s", "p", "u">>, <<"s", "f", "t", "p">>, <<"s", "v", "n">>,
   <<"s", "v", "n", "+", "s", "s", "h">>, <<"w", "s">>, <<"w", "s", "s">>}

uses_netloc ==
  {<<>>, <<"f", "t", "p">>, <<"h", "t", "t", "p">>,
   <<"g", "o", "p", "h", "e", "r">>, <<"n", "n", "t", "p">>,
   <<"t", "e", "l", "n", "e", "t">>, <<"i", "m", "a", "p">>,
   <<"w", "a", "i", "s">>, <<"f", "i", "l", "e">>, <<"m", "m", "s">>,
   <<"h", "t", "t", "p", "s">>, <<"s", "h", "t", "t", "p">>,
   <<"s", "n", "e", "w", "s">>,
   <<"p", "r", "o", "s", "p", "e", "r", "o">>, <<"r", "t", "s", "p">>,
   <<"r", "t", "s", "p", "s">>, <<"r", "t", "s", "p", "u">>,
   <<"r", "s", "y", "n", "c">>, <<"s", "v", "n">>,
   <<"s", "v", "n", "+", "s", "s", "h">>, <<"s", "f", "t", "p">>,
   <<"n", "f", "s">>, <<"g", "i", "t">>,
   <<"g", "i", "t", "+", "s", "s", "h">>, <<"w", "s">>, <<"w", "s", "s">>}

uses_params ==
  {<<>>, <<"f", "t", "p">>, <<"h", "d", "l">>,
   <<"p", "r", "o", "s", "p", "e", "r", "o">>, <<"h", "t", "t", "p">>,
   <<"i", "m", "a", "p">>, <<"h", "t", "t", "p", "s">>,
   <<"s", "h", "t", "t", "p">>, <<"r", "t", "s", "p">>,
   <<"r", "t", "s", "p", "s">>, <<"r", "t", "s", "p", "u">>,
   <<"s", "i", "p">>, <<"s", "i", "p", "s">>, <<"m", "m", "s">>,
   <<"s", "f", "t", "p">>, <<"t", "e", "l">>}

\* _splitnetloc(url, 2) when url starts with //: the text between the // and
\* the first of / ? #, and the rest; no netloc otherwise
SplitNetloc(url) ==
  IF Take(url, 2) # <<"/", "/">> THEN [netloc |-> <<>>, url |-> url]
  ELSE IF \E i \in 3..Len(url) : url[i] \in {"/", "?", "#"}
       THEN [netloc |-> SubSeq(url, 3, (CHOOSE i \in 3..Len(url) :
                          /\ url[i] \in {"/", "?", "#"}
                          /\ \A j \in 3..(i - 1) : url[j] \notin {"/", "?", "#"}) - 1),
             url |-> Drop(url, (CHOOSE i \in 3..Len(url) :
                          /\ url[i] \in {"/", "?", "#"}
                          /\ \A j \in 3..(i - 1) : url[j] \notin {"/", "?", "#"}) - 1)]
       ELSE [netloc |-> Drop(url, 2), url |-> <<>>]

\* url.split(c, 1) when c is in url; the whole url and nothing otherwise
SplitOnce(url, c) ==
  IF HasChar(url, c)
  THEN [before |-> Take(url, Find(url, c) - 1), after |-> Drop(url, Find(url, c))]
  ELSE [before |-> url, after |-> <<>>]

\* the scheme test of urlsplit, i being the position of the first colon
HasScheme(url, i) ==
  /\ i > 1
  /\ url[1] \in Range(LowerCase) \cup Range(UpperCase)
  /\ \A k \in 1..(i - 1) : url[k] \in scheme_chars

\* urlsplit, the query split off what is left once the fragment is
SplitQuery(scheme, netloc, q, fragment) ==
  [scheme |-> scheme, netloc |-> netloc, path |-> q.before, query |-> q.after,
   fragment |-> fragment]

\* urlsplit, the fragment split off what is left once the netloc is
SplitFragment(scheme, netloc, f) ==
  SplitQuery(scheme, netloc, SplitOnce(f.before, "?"), f.after)

\* urlsplit, the netloc split off what is left once the scheme is
SplitAuthority(scheme, n) ==
  SplitFragment(scheme, n.netloc, SplitOnce(n.url, "#"))

\* urlsplit, the scheme split off
SplitScheme(url, scheme0, i) ==
  SplitAuthority(IF HasScheme(url, i) THEN Lower(Take(url, i - 1)) ELSE scheme0,
                 SplitNetloc(IF HasScheme(url, i) THEN Drop(url, i) ELSE url))

\* urlsplit(url, scheme): the 5 components
urlsplit(url, scheme0) == SplitScheme(url, scheme0, Find(url, ":"))

\* urlunsplit(components), which is also SplitResult.geturl()
urlunsplit(c) ==
  (IF c.scheme # <<>> THEN c.scheme \o <<":">> ELSE <<>>)
  \o (IF \/ c.netloc # <<>>
         \/ /\ c.scheme # <<>>
            /\ c.scheme \in uses_netloc
            /\ Take(c.path, 2) # <<"/", "/">>
      THEN <<"/", "/">> \o c.netloc \o
           (IF c.path # <<>> /\ c.path[1] # "/" THEN <<"/">> ELSE <<>>)
      ELSE <<>>)
  \o c.path
  \o (IF c.query # <<>> THEN <<"?">> \o c.query ELSE <<>>)
  \o (IF c.fragment # <<>> THEN <<"#">> \o c.fragment ELSE <<>>)

\* the 1-based position of the last / of url, 0 when there is none (rfind + 1)
RFindSlash(url) ==
  IF HasChar(url, "/")
  THEN CHOOSE i \in 1..Len(url) : url[i] = "/" /\ \A j \in (i + 1)..Len(url) : url[j] # "/"
  ELSE 0

\* url.find(';', from) + 1
FindParams(url, from) ==
  IF \E i \in (from + 1)..Len(url) : url[i] = ";"
  THEN CHOOSE i \in (from + 1)..Len(url) :
         url[i] = ";" /\ \A j \in (from + 1)..(i - 1) : url[j] # ";"
  ELSE 0

\* _splitparams(url), i being the position of the ; that starts the parameters
SplitParamsAt(url, i) ==
  IF i = 0 THEN [url |-> url, params |-> <<>>]
  ELSE [url |-> Take(url, i - 1), params |-> Drop(url, i)]

\* _splitparams(url): the parameters follow the first ; of the last path segment
SplitParams(url) == SplitParamsAt(url, FindParams(url, RFindSlash(url)))

\* urlparse, given the result s of urlsplit and the split p of its path
WithParams(s, p) ==
  [scheme |-> s.scheme, netloc |-> s.netloc, path |-> p.url, params |-> p.params,
   query |-> s.query, fragment |-> s.fragment]

\* urlparse, given the result s of urlsplit
ParseSplit(s) ==
  WithParams(s, IF s.scheme \in uses_params /\ HasChar(s.path, ";")
                THEN SplitParams(s.path)
                ELSE [url |-> s.path, params |-> <<>>])

\* urlparse(url, scheme): the 6 components
urlparse(url, scheme0) == ParseSplit(urlsplit(url, scheme0))

\* urlunparse(components)
urlunparse(c) ==
  urlunsplit([scheme |-> c.scheme, netloc |-> c.netloc,
              path |-> IF c.params # <<>> THEN c.path \o <<";">> \o c.params
                       ELSE c.path,
              query |-> c.query, fragment |-> c.fragment])

\* urldefrag, given the components c of the url
Defrag(c) ==
  [url |-> urlunparse([c EXCEPT !.fragment = <<>>]), fragment |-> c.fragment]

\* urldefrag(url): the pair (url without fragment, fragment)
urldefrag(url) ==
  IF HasChar(url, "#") THEN Defrag(urlparse(url, <<>>))
  ELSE [url |-> url, fragment |-> <<>>]

\* '/'.join(segments)
RECURSIVE JoinSlash(_)
JoinSlash(segs) ==
  IF segs = <<>> THEN <<>>
  ELSE IF Len(segs) = 1 THEN segs[1]
  ELSE segs[1] \o <<"/">> \o JoinSlash(Tail(segs))

\* segments[1:-1] = filter(None, segments[1:-1])
FilterInner(segs) ==
  IF Len(segs) <= 2 THEN segs
  ELSE <<segs[1]>> \o SelectSeq(SubSeq(segs, 2, Len(segs) - 1), LAMBDA x : x # <<>>)
       \o <<segs[Len(segs)]>>

\* the loop of urljoin over the segments: .. pops, . is skipped
RECURSIVE ResolveSegs(_, _)
ResolveSegs(segs, acc) ==
  IF segs = <<>> THEN acc
  ELSE IF Head(segs) = <<".", ".">>
       THEN ResolveSegs(Tail(segs), IF acc = <<>> THEN acc ELSE SubSeq(acc, 1, Len(acc) - 1))
       ELSE IF Head(segs) = <<".">> THEN ResolveSegs(Tail(segs), acc)
       ELSE ResolveSegs(Tail(segs), Append(acc, Head(segs)))

\* urljoin: the base path without its last segment, unless that is empty
BaseParts(parts) ==
  IF parts[Len(parts)] # <<>> THEN SubSeq(parts, 1, Len(parts) - 1) ELSE parts

\* urljoin: the segments to resolve
Segments(bpath, path) ==
  IF Take(path, 1) = <<"/">> THEN Split(path, "/")
  ELSE FilterInner(BaseParts(Split(bpath, "/")) \o Split(path, "/"))

\* urljoin: the resolved path of the segments
ResolvedPath(segments, resolved) ==
  JoinSlash(IF segments[Len(segments)] \in {<<".">>, <<".", ".">>}
            THEN Append(resolved, <<>>) ELSE resolved)

\* urljoin: '/'.join(resolved_path) or '/'
OrSlash(path) == IF path = <<>> THEN <<"/">> ELSE path

\* urljoin: the path of the result, when the relative url has a path
MergedPath(segments) == OrSlash(ResolvedPath(segments, ResolveSegs(segments, <<>>)))

\* urljoin, given the components b of the base and u of the url
JoinParsed(url, b, u) ==
  IF u.scheme # b.scheme \/ u.scheme \notin uses_relative THEN url
  ELSE IF u.scheme \in uses_netloc /\ u.netloc # <<>> THEN urlunparse(u)
  ELSE urlunparse(
         IF u.path = <<>> /\ u.params = <<>>
         THEN [scheme |-> u.scheme,
               netloc |-> IF u.scheme \in uses_netloc THEN b.netloc ELSE u.netloc,
               path |-> b.path, params |-> b.params,
               query |-> IF u.query = <<>> THEN b.query ELSE u.query,
               fragment |-> u.fragment]
         ELSE [scheme |-> u.scheme,
               netloc |-> IF u.scheme \in uses_netloc THEN b.netloc ELSE u.netloc,
               path |-> MergedPath(Segments(b.path, u.path)),
               params |-> u.params, query |-> u.query, fragment |-> u.fragment])

\* urljoin, given the components b of the base
JoinBase(url, b) == JoinParsed(url, b, urlparse(url, b.scheme))

\* urljoin(base, url)
urljoin(base, url) ==
  IF base = <<>> THEN url
  ELSE IF url = <<>> THEN base
  ELSE JoinBase(url, urlparse(base, <<>>))

(***************************************************************************)
(* _URIDict                                                                *)
(***************************************************************************)

\* _URIDict.normalize
normalize(uri) == urlunsplit(urlsplit(uri, <<>>))

\* _URIDict.__init__: the arguments are copied into the inner dict as they are
URIDict_init(args) == args

\* _URIDict.__getitem__
URIDict_getitem(st, uri) == st[normalize(uri)]

\* a __setitem__ that stores nothing
URIDict_setitem_dropped(st, uri, value) == st

\* a membership test that never finds the key
URIDict_contains_never(st, uri) == FALSE

\* _URIDict.__setitem__
URIDict_setitem(st, uri, value) == (normalize(uri) :> value) @@ st

\* `uri in store`: MutableMapping.__contains__ tries __getitem__ and answers
\* False on KeyError
URIDict_contains(st, uri) == normalize(uri) \in DOMAIN st

(***************************************************************************)
(* The texts and documents of the model.                                   *)
(***************************************************************************)

U_a    == <<"h", "t", "t", "p", ":", "/", "/", "x", "/", "a">>
U_A    == <<"H", "T", "T", "P", ":", "/", "/", "x", "/", "a">>
U_mem  == <<"m", "e", "m", ":", "/", "/", "x">>
F_y    == <<"#", "/", "y">>
F_n    == <<"#", "/", "n">>
F_ab   == <<"#", "/", "a", "/", "b">>
K_ref  == <<"$", "r", "e", "f">>
K_x    == <<"x">>
K_y    == <<"y">>
K_a    == <<"a">>
K_b    == <<"b">>

DocA == Obj((K_y :> Num(7)) @@ (K_a :> Obj((K_b :> Num(42)))))
DocB == Obj((K_y :> Num(8)))

\* the documents a server may answer with
RemoteDocs == {DocB}

\* the mappings a caller may hand to Dereferencer(store=...)
Seeds == {(U_mem :> DocA), (U_mem :> DocA) @@ (U_A :> DocA)}

\* the (ref, base_uri) pairs the model constructs proxies from
Refs == {<<F_y, <<>>>>, <<F_y, U_a>>, <<U_a \o F_n, <<>>>>, <<U_A, <<>>>>,
         <<U_mem \o F_ab, <<>>>>}

\* the parsed documents the model loads
LoadDocs == {Obj((K_x :> Obj((K_ref :> Str(F_y)))) @@ (K_y :> Num(7))),
             Obj((K_x :> Arr(<<Obj((K_ref :> Str(U_a \o F_y)))>>)) @@ (K_y :> Num(7))),
             Obj((K_y :> Num(7)))}

MaxProxies == 2
MaxFetches == 2

Derefs == {"default", "user"}

VARIABLES
  seed,       \* seed[d]: the mapping Dereferencer d was constructed with
  store,      \* store[d]: the inner dict of Dereferencer d's _URIDict
  heap,       \* heap[p]: the fields of RefObject p
  first,      \* first[p]: what the first observation of p did with the store
  fetches,    \* fetches[p]: the calls of requests.get made on behalf of p
  loaded,     \* the tree the latest load returned
  last,       \* the latest operation on a proxy and its outcome
  query,      \* pointer resolution on its own: the pointer asked for
  result,     \*   and the outcome of resolving it
  source,     \* the parsed document handed to the latest load, and the loader
  threads     \* threads[t]: where thread t stands in its observation

vars == <<seed, store, heap, first, fetches, loaded, last, query, result, source,
          threads>>

(***************************************************************************)
(* Dereferencer                                                            *)
(***************************************************************************)

http  == <<"h", "t", "t", "p">>
https == <<"h", "t", "t", "p", "s">>

\* requests.get(uri).json(): a URI that requests cannot send (no scheme, not
\* http or https, no host) always raises; any other may raise (the network,
\* the status, a body that is not JSON) or give the document served
Responses(uri) ==
  LET u == urlsplit(uri, <<>>) IN
  {Raise("FetchError", Str(uri))} \cup
  (IF u.scheme \in {http, https} /\ u.netloc # <<>>
   THEN {Ok(d) : d \in RemoteDocs} ELSE {})

\* a remote that does not store the document
remote_unsaved(st, uri, response) == [store |-> st, out |-> response, got |-> <<uri>>]

\* Dereferencer.remote, given the response: the store afterwards, the
\* outcome, and the URIs requests was asked for
remote(st, uri, response) ==
  IF response.err # "none" THEN [store |-> st, out |-> response, got |-> <<uri>>]
  ELSE [store |-> URIDict_setitem(st, uri, response.val), out |-> response,
        got |-> <<uri>>]

\* line 79 after a fetch: the exception of remote propagates, a document is
\* resolved
Resolved(r, fragment) ==
  IF r.out.err # "none" THEN r
  ELSE [r EXCEPT !.out = resolve_pointer(r.out.val, fragment)]

\* a dereference that answers a store hit with the whole document
Lookup_whole(st, d, response) ==
  IF URIDict_contains(st, d.url)
  THEN [store |-> st, out |-> Ok(URIDict_getitem(st, d.url)), got |-> <<>>]
  ELSE Resolved(remote(st, d.url, response), d.fragment)

\* a dereference that does not look into the store
Lookup_remote(st, d, response) == Resolved(remote(st, d.url, response), d.fragment)

\* lines 74 to 79, d being the pair urldefrag gave
Lookup(st, d, response) ==
  IF URIDict_contains(st, d.url)
  THEN [store |-> st,
        out |-> resolve_pointer(URIDict_getitem(st, d.url), d.fragment),
        got |-> <<>>]
  ELSE Resolved(remote(st, d.url, response), d.fragment)

\* Dereferencer.dereference, given the response a fetch would get: the store
\* afterwards, the outcome, and the URIs requests was asked for
dereference(st, full_uri, response) == Lookup(st, urldefrag(full_uri), response)

(***************************************************************************)
(* What the builtins that RefObject forwards to do on a JSON value, and    *)
(* what ==, in and [] do on one.                                           *)
(***************************************************************************)

RECURSIVE Canon(_)
\* Python compares True with 1 and False with 0 as equal: one form for both
Canon(v) ==
  CASE v.t = "bool" -> Num(v.v)
    [] v.t = "obj" -> Obj([k \in DOMAIN v.v |-> Canon(v.v[k])])
    [] v.t = "arr" -> Arr([i \in 1..Len(v.v) |-> Canon(v.v[i])])
    [] OTHER -> v

\* a == b on JSON values
PyEq(a, b) == Canon(a) = Canon(b)

\* bool(v)
Truthy(v) ==
  CASE v.t = "obj" -> DOMAIN v.v # {}
    [] v.t = "arr" -> v.v # <<>>
    [] v.t = "str" -> v.v # <<>>
    [] OTHER -> v.v # 0

\* iter(v), as the sequence it yields (a dict yields its keys; the model
\* gives them as a set, a dict of the model having no order)
Iter(v) ==
  CASE v.t = "obj" -> Ok([t |-> "keys", v |-> {Str(k) : k \in DOMAIN v.v}])
    [] v.t = "arr" -> Ok([t |-> "items", v |-> v.v])
    [] v.t = "str" -> Ok([t |-> "items", v |-> [i \in 1..Len(v.v) |-> Str(<<v.v[i]>>)]])
    [] OTHER -> Raise("TypeError", v)

\* the attributes of the model: dict.keys, and a name no type has
HasAttr(v, name) == v.t = "obj" /\ name = Str(<<"k", "e", "y", "s">>)

\* func(refobj.object, *args) for the five builtins of lines 139 to 143
Apply(op, v, arg) ==
  CASE op = "repr" -> Ok([t |-> "repr", v |-> v])
    [] op = "str" -> IF v.t = "str" THEN Ok(v) ELSE Ok([t |-> "repr", v |-> v])
    [] op = "iter" -> Iter(v)
    [] op = "bool" -> Ok(Bool(Truthy(v)))
    [] op = "getattr" ->
         IF HasAttr(v, arg) THEN Ok([t |-> "attr", v |-> <<v, arg>>])
         ELSE Raise("AttributeError", arg)

\* x in it, for an iterator it: the search that `in` falls back to on an
\* object that has __iter__ and no __contains__
InIterator(it, x) ==
  IF it.err # "none" THEN it
  ELSE IF it.val.t = "keys" THEN Ok(Bool(\E e \in it.val.v : PyEq(e, x)))
  ELSE Ok(Bool(\E i \in 1..Len(it.val.v) : PyEq(it.val.v[i], x)))

\* x in v on the value itself
RawContains(v, x) ==
  CASE v.t = "obj" ->
         IF x.t \in {"obj", "arr"} THEN Raise("TypeError", x)
         ELSE Ok(Bool(x.t = "str" /\ x.v \in DOMAIN v.v))
    [] v.t = "arr" -> Ok(Bool(\E i \in 1..Len(v.v) : PyEq(v.v[i], x)))
    [] v.t = "str" ->
         IF x.t = "str" THEN Ok(Bool(IsSubstr(x.v, v.v))) ELSE Raise("TypeError", x)
    [] OTHER -> Raise("TypeError", v)

\* s[i] of a Python sequence s of the given length, for an int i
IndexOk(len, i) == i < len /\ i >= 0 - len
Index(len, i) == IF i >= 0 THEN i + 1 ELSE len + i + 1

\* v[k] on the value itself
RawGetItem(v, k) ==
  CASE v.t = "obj" ->
         IF k.t \in {"obj", "arr"} THEN Raise("TypeError", k)
         ELSE IF k.t = "str" /\ k.v \in DOMAIN v.v THEN Ok(v.v[k.v])
         ELSE Raise("KeyError", k)
    [] v.t \in {"arr", "str"} ->
         IF k.t \notin {"num", "bool"} THEN Raise("TypeError", k)
         ELSE IF ~IndexOk(Len(v.v), k.v) THEN Raise("IndexError", k)
         ELSE IF v.t = "arr" THEN Ok(v.v[Index(Len(v.v), k.v)])
         ELSE Ok(Str(<<v.v[Index(Len(v.v), k.v)]>>))
    [] OTHER -> Raise("TypeError", v)

\* the operation on the value itself
OnValue(op, v, arg) ==
  CASE op = "contains" -> RawContains(v, arg)
    [] op = "eq" -> Ok(Bool(PyEq(v, arg)))
    [] op = "getitem" -> RawGetItem(v, arg)
    [] OTHER -> Apply(op, v, arg)

(***************************************************************************)
(* RefObject and the `dereferencing` wrapper                               *)
(***************************************************************************)

\* RefObject.__init__: urljoin returns its second argument as it is when the
\* base is empty
RefObject_init(ref, base_uri, dereferencer) ==
  [ref |-> IF base_uri = <<>> THEN ref ELSE Str(urljoin(base_uri, ref.v)),
   dereferenced |-> FALSE,
   object |-> Null,
   dereferencer |-> dereferencer]

\* assignments that mark the proxy dereferenced whatever the call gave
Assigned_marked(refobj, r) ==
  [proxy |-> [refobj EXCEPT !.dereferenced = TRUE],
   store |-> r.store, out |-> r.out, got |-> r.got]

\* lines 136 and 137, r being what Dereferencer.dereference gave: an exception
\* leaves the fields as they were
Assigned(refobj, r) ==
  [proxy |-> IF r.out.err = "none"
             THEN [refobj EXCEPT !.object = r.out.val, !.dereferenced = TRUE]
             ELSE refobj,
   store |-> r.store, out |-> r.out, got |-> r.got]

\* RefObject.dereference: the proxy and the store afterwards, the outcome, and
\* the URIs requests was asked for; urldefrag of a ref that is no string raises
RefObject_dereference(refobj, st, response) ==
  IF refobj.ref.t # "str"
  THEN [proxy |-> refobj, store |-> st, out |-> Raise("TypeError", refobj.ref),
        got |-> <<>>]
  ELSE Assigned(refobj, dereference(st, refobj.ref.v, response))

\* the operations a RefObject defines through `dereferencing`; `in` reaches
\* __iter__, RefObject having no __contains__
Intercepted == {"repr", "str", "iter", "bool", "getattr", "contains"}

\* the operations of the model: those, and two that RefObject does not define
Operations == Intercepted \cup {"eq", "getitem"}

\* func(refobj.object, *args) of the wrapper
Forward(op, object, arg) ==
  IF op = "contains" THEN InIterator(Apply("iter", object, Null), arg)
  ELSE Apply(op, object, arg)

\* line 122, r being the proxy and the store as they are by then
Forwarded(op, arg, r) ==
  IF r.out.err # "none" THEN r
  ELSE [r EXCEPT !.out = Forward(op, r.proxy.object, arg)]

\* the wrapper of `dereferencing`: dereference first if that was not done
wrapper(refobj, op, arg, st, response) ==
  Forwarded(op, arg,
            IF ~refobj.dereferenced THEN RefObject_dereference(refobj, st, response)
            ELSE [proxy |-> refobj, store |-> st, out |-> Ok(Null), got |-> <<>>])

\* an operation RefObject does not define: == is object identity and [] is
\* not supported; neither looks at the fields
Direct(op, arg) ==
  IF op = "eq" THEN Ok(Bool(FALSE)) ELSE Raise("TypeError", arg)

\* an operation on a proxy: the proxy and the store afterwards, the outcome
\* and the URIs asked for
Operate(refobj, op, arg, st, response) ==
  IF op \in Intercepted THEN wrapper(refobj, op, arg, st, response)
  ELSE [proxy |-> refobj, store |-> st, out |-> Direct(op, arg), got |-> <<>>]

(***************************************************************************)
(* load / loads: json's decoder calls the object hook on every JSON object *)
(* once its members are decoded.                                           *)
(***************************************************************************)

\* the hook that returns nothing for a mapping without $ref
as_ref_object_noreturn(dct, h) ==
  IF K_ref \in DOMAIN dct
  THEN [tree |-> [t |-> "ref", v |-> Len(h) + 1],
        heap |-> Append(h, RefObject_init(dct[K_ref], <<>>, "default"))]
  ELSE [tree |-> Null, heap |-> h]

\* _as_ref_object, the proxy it makes going to the heap h
as_ref_object(dct, h) ==
  IF K_ref \in DOMAIN dct
  THEN [tree |-> [t |-> "ref", v |-> Len(h) + 1],
        heap |-> Append(h, RefObject_init(dct[K_ref], <<>>, "default"))]
  ELSE [tree |-> Obj(dct), heap |-> h]

RECURSIVE loads(_, _)
RECURSIVE LoadsMembers(_, _, _, _)
RECURSIVE LoadsElements(_, _, _)

\* the decoded members of a JSON object, the keys in `keys` still to decode
LoadsMembers(f, keys, dct, h) ==
  IF keys = {} THEN [dct |-> dct, heap |-> h]
  ELSE LET k == CHOOSE x \in keys : TRUE
           r == loads(f[k], h)
       IN  LoadsMembers(f, keys \ {k}, (k :> r.tree) @@ dct, r.heap)

\* the decoded elements of a JSON array
LoadsElements(s, acc, h) ==
  IF s = <<>> THEN [arr |-> acc, heap |-> h]
  ELSE LET r == loads(Head(s), h) IN LoadsElements(Tail(s), Append(acc, r.tree), r.heap)

\* the decoding of a parsed value with object_hook=_as_ref_object
loads(tree, h) ==
  CASE tree.t = "obj" ->
         LET m == LoadsMembers(tree.v, DOMAIN tree.v, <<>>, h)
         IN  as_ref_object(m.dct, m.heap)
    [] tree.t = "arr" ->
         LET m == LoadsElements(tree.v, <<>>, h)
         IN  [tree |-> Arr(m.arr), heap |-> m.heap]
    [] OTHER -> [tree |-> tree, heap |-> h]

(***************************************************************************)
(* loadp: the walk over a parsed document, from the root down.             *)
(***************************************************************************)

\* obj["$ref"] raises KeyError on a dict without the key and TypeError on
\* every other type (str and list take integer indices only; numbers, booleans
\* and None are not subscriptable): only a dict with the key gives a value
HasRef(obj) == obj.t = "obj" /\ K_ref \in DOMAIN obj.v

RECURSIVE loadp(_, _)
RECURSIVE LoadpMembers(_, _, _, _)
RECURSIVE LoadpElements(_, _, _)

\* line 167: the members of a dict, the keys in `keys` still to walk
LoadpMembers(f, keys, dct, h) ==
  IF keys = {} THEN [tree |-> Obj(dct), heap |-> h]
  ELSE LET k == CHOOSE x \in keys : TRUE
           r == loadp(f[k], h)
       IN  LoadpMembers(f, keys \ {k}, (k :> r.tree) @@ dct, r.heap)

\* line 169: the elements of a list
LoadpElements(s, acc, h) ==
  IF s = <<>> THEN [tree |-> Arr(acc), heap |-> h]
  ELSE LET r == loadp(Head(s), h) IN LoadpElements(Tail(s), Append(acc, r.tree), r.heap)

\* loadp(obj), the proxies it makes going to the heap h
loadp(obj, h) ==
  IF HasRef(obj)
  THEN [tree |-> [t |-> "ref", v |-> Len(h) + 1],
        heap |-> Append(h, RefObject_init(obj.v[K_ref], <<>>, "default"))]
  ELSE CASE obj.t = "obj" -> LoadpMembers(obj.v, DOMAIN obj.v, <<>>, h)
         [] obj.t = "arr" -> LoadpElements(obj.v, <<>>, h)
         [] OTHER -> [tree |-> obj, heap |-> h]

(***************************************************************************)
(* The state machine.                                                      *)
(***************************************************************************)

\* the argument each operation of the model is tried with
ArgOf(op) ==
  CASE op = "getattr" -> Str(<<"k", "e", "y", "s">>)
    [] op = "contains" -> Str(K_y)
    [] op = "eq" -> Num(8)
    [] op = "getitem" -> Str(K_y)
    [] OTHER -> Null

Idle == [op |-> "none", arg |-> Null, p |-> 0, got |-> <<>>, out |-> Ok(Null)]

Unset == Raise("unset", Null)

NoQuery == [kind |-> "none", path |-> <<>>, pointer |-> <<>>]

NoSource == [by |-> "none", doc |-> Null]

\* the threads of the model, and a thread that is in no observation
Threads == {1, 2}
NoThread == [pc |-> "idle", p |-> 0, op |-> "none", uri |-> <<>>, fragment |-> <<>>,
             document |-> Null, got |-> <<>>, fetched |-> <<>>, raced |-> FALSE]

\* the response that stands for no call of requests.get
NoResponse == Raise("FetchError", Null)

\* the responses an operation on a proxy may meet: requests.get is reached
\* only through the wrapper, on a proxy not dereferenced, whose ref is a string
ResponsesFor(refobj, op) ==
  IF op \in Intercepted /\ ~refobj.dereferenced /\ refobj.ref.t = "str"
  THEN Responses(urldefrag(refobj.ref.v).url)
  ELSE {NoResponse}

\* the state after the module is imported (the default Dereferencer() of
\* RefObject.__init__ is made once, with an empty store) and a caller has
\* made one Dereferencer(s)
Init ==
  /\ \E s \in Seeds : seed = [d \in Derefs |-> IF d = "default" THEN <<>> ELSE s]
  /\ store = [d \in Derefs |-> URIDict_init(seed[d])]
  /\ heap = <<>>
  /\ first = <<>>
  /\ fetches = <<>>
  /\ loaded = Null
  /\ last = Idle
  /\ query = NoQuery
  /\ result = Unset
  /\ source = NoSource
  /\ threads = [t \in Threads |-> NoThread]

\* RefObject(ref, base_uri, dereferencer)
NewRefObject(ref, base_uri, d) ==
  /\ Len(heap) < MaxProxies
  /\ heap' = Append(heap, RefObject_init(Str(ref), base_uri, d))
  /\ first' = Append(first, "none")
  /\ fetches' = Append(fetches, 0)
  /\ UNCHANGED <<seed, store, loaded, last, query, result, source, threads>>

\* loads(text), text being the JSON text of doc
Loads(doc) ==
  \E r \in {loads(doc, heap)} :
    /\ Len(r.heap) <= MaxProxies
    /\ heap' = r.heap
    /\ first' = first \o [i \in 1..(Len(r.heap) - Len(heap)) |-> "none"]
    /\ fetches' = fetches \o [i \in 1..(Len(r.heap) - Len(heap)) |-> 0]
    /\ loaded' = r.tree
    /\ source' = [by |-> "loads", doc |-> doc]
    /\ UNCHANGED <<seed, store, last, query, result, threads>>

\* what the first observation of a proxy did with the store
StoreUse(r) ==
  IF r.got = <<>> THEN "nofetch"
  ELSE IF r.out.err = "FetchError" THEN "failed" ELSE "fetched"

\* a consumer performs op(proxy, arg)
Observe(p, op) ==
  /\ p \in 1..Len(heap)
  /\ \E response \in ResponsesFor(heap[p], op) :
       \E r \in {Operate(heap[p], op, ArgOf(op), store[heap[p].dereferencer], response)} :
         /\ fetches[p] + Len(r.got) <= MaxFetches
         /\ heap' = [heap EXCEPT ![p] = r.proxy]
         /\ store' = [store EXCEPT ![heap[p].dereferencer] = r.store]
         /\ fetches' = [fetches EXCEPT ![p] = @ + Len(r.got)]
         /\ first' = IF op \in Intercepted /\ first[p] = "none"
                     THEN [first EXCEPT ![p] = StoreUse(r)]
                     ELSE first
         /\ last' = [op |-> op, arg |-> ArgOf(op), p |-> p, got |-> r.got,
                     out |-> r.out]
  /\ UNCHANGED <<seed, loaded, query, result, source, threads>>

\* proxies made by hand, on either Dereferencer, and observed
Next ==
  \/ \E x \in Refs, d \in Derefs : NewRefObject(x[1], x[2], d)
  \/ \E p \in 1..MaxProxies, op \in {"bool", "eq"} : Observe(p, op)

Spec == Init /\ [][Next]_vars

\* one kind of proxy, every operation
NextOps ==
  \/ \E ref \in {U_a, U_a \o F_y} : NewRefObject(ref, <<>>, "user")
  \/ \E p \in 1..MaxProxies, op \in Operations : Observe(p, op)

SpecOps == Init /\ [][NextOps]_vars

\* documents loaded, and their proxies observed
NextLoad ==
  \/ \E doc \in LoadDocs : Loads(doc)
  \/ \E p \in 1..MaxProxies, op \in {"str", "eq"} : Observe(p, op)

SpecLoad == Init /\ [][NextLoad]_vars

(***************************************************************************)
(* Pointer resolution on its own: a Dereferencer whose store holds one     *)
(* document under mem://x is asked for mem://x#<pointer>.                  *)
(***************************************************************************)

MaxDepth == 3
MaxKeyLen == 4

\* the sequences over S of length n at most
SeqsUpTo(S, n) == UNION {[1..k -> S] : k \in 0..n}

RECURSIVE PointerOf(_)
\* the pointer /k1/.../kn of the tokens k1, ..., kn
PointerOf(path) ==
  IF path = <<>> THEN <<>> ELSE <<"/">> \o Head(path) \o PointerOf(Tail(path))

\* the pointer segment of a key: '~' written ~0, then '/' written ~1
Escape(key) == Replace(Replace(key, <<"~">>, <<"~", "0">>), <<"/">>, <<"~", "1">>)

\* nested mappings, and the keys their pointers are made of
Docs8 == {Obj((K_a :> Obj((K_b :> Num(42))))),
          Obj((<<>> :> Obj((K_a :> Num(1)) @@ (<<>> :> Obj((K_b :> Num(2))))))
              @@ (K_a :> Obj((<<>> :> Num(3)))))}
Keys8 == {K_a, K_b, <<"z">>, <<>>}

KeyCases ==
  {[document |-> d,
    query |-> [kind |-> "keys", path |-> path, pointer |-> PointerOf(path)]] :
     d \in Docs8, path \in SeqsUpTo(Keys8, MaxDepth)}

\* the keys that hold '/' or '~'
Alphabet9 == {"/", "~", "0", "1", "%", "4"}
Keys9 == {k \in SeqsUpTo(Alphabet9, MaxKeyLen) : HasChar(k, "/") \/ HasChar(k, "~")}

\* a mapping that holds the key, and beside it the keys a wrong decoding of
\* its segment would reach
Decoys(key) ==
  {Escape(key), Replace(key, <<"~", "1">>, <<"/">>), Replace(key, <<"~", "0">>, <<"~">>)}
    \ {key}
DocWithKey(key) == Obj((key :> Num(1)) @@ [k \in Decoys(key) |-> Num(0)])

EscapeCases ==
  {[document |-> DocWithKey(k),
    query |-> [kind |-> "escape", path |-> <<k>>, pointer |-> <<"/">> \o Escape(k)]] :
     k \in Keys9}

\* arrays, and the pointers to their elements
Doc10 == Obj((K_a :> Arr(<<Num(10), Num(20)>>)))
Arr10 == Arr(<<Str(<<"1">>), Str(<<"0">>)>>)

IndexCases ==
  {[document |-> c[1],
    query |-> [kind |-> "index", path |-> c[2], pointer |-> PointerOf(c[2])]] :
     c \in {<<Doc10, <<K_a, <<"0">>>>>>, <<Doc10, <<K_a, <<"1">>>>>>,
            <<Arr10, <<<<"0">>>>>>, <<Arr10, <<<<"1">>>>>>}}

\* walks that cannot succeed: a missing key, an index out of range, an index
\* that is no number, a step into a scalar
Doc11 == Obj((K_a :> Num(42)) @@ (<<"s">> :> Str(<<"x", "y", "z">>))
             @@ (<<"t">> :> Bool(TRUE)) @@ (<<"n">> :> Null)
             @@ (<<"l">> :> Arr(<<Num(10), Num(20)>>))
             @@ (<<"m">> :> Arr(<<Str(<<"5">>)>>)))
Paths11 == {<< <<"z">> >>, <<K_a, K_b>>, << <<"s">>, <<"x">> >>, << <<"s">>, <<"q">> >>,
            << <<"t">>, <<"x">> >>, << <<"n">>, <<"x">> >>, << <<"l">>, <<"5">> >>,
            << <<"l">>, <<"x">> >>, << <<"m">>, <<"5">> >>}

FailCases ==
  {[document |-> Doc11,
    query |-> [kind |-> "fails", path |-> path, pointer |-> PointerOf(path)]] :
     path \in Paths11}

Cases == KeyCases \cup EscapeCases \cup IndexCases \cup FailCases

\* Dereferencer({"mem://x": document}), and a pointer to ask it for
InitPtr ==
  /\ \E c \in Cases :
       /\ seed = [d \in Derefs |-> IF d = "default" THEN <<>>
                                   ELSE (U_mem :> c.document)]
       /\ query = c.query
  /\ store = [d \in Derefs |-> URIDict_init(seed[d])]
  /\ heap = <<>>
  /\ first = <<>>
  /\ fetches = <<>>
  /\ loaded = Null
  /\ last = Idle
  /\ result = Unset
  /\ source = NoSource
  /\ threads = [t \in Threads |-> NoThread]

\* dereferencer.dereference("mem://x#" + pointer)
Dereference ==
  /\ query.kind # "none"
  /\ result = Unset
  /\ \E r \in {dereference(store["user"], U_mem \o <<"#">> \o query.pointer, NoResponse)} :
       /\ result' = r.out
       /\ store' = [store EXCEPT !["user"] = r.store]
  /\ UNCHANGED <<seed, heap, first, fetches, loaded, last, query, source, threads>>

NextPtr == Dereference

SpecPtr == InitPtr /\ [][NextPtr]_vars

(***************************************************************************)
(* The two loaders on the same parsed documents.                           *)
(***************************************************************************)

\* documents without $ref
PlainDocs ==
  {Obj((K_a :> Obj((K_b :> Arr(<<Num(1), Str(K_x), Null, Bool(TRUE), Obj(<<>>)>>))))
       @@ (K_y :> Arr(<<>>))),
   Arr(<<Num(1), Obj((K_a :> Num(2)))>>),
   Obj((K_y :> Num(7))),
   Obj((K_x :> Str(K_ref))),
   Str(K_ref),
   Num(7)}

\* documents with $ref
RefDocs ==
  {Obj((K_x :> Obj((K_ref :> Str(F_y)))) @@ (K_y :> Num(7))),
   Arr(<<Obj((K_ref :> Str(F_y))), Obj((K_ref :> Str(F_y)))>>),
   Obj((K_ref :> Str(F_y)) @@ (K_x :> Obj((K_ref :> Str(F_n))))),
   Obj((K_ref :> Num(5))),
   Obj((K_ref :> Obj((K_ref :> Str(F_y))))),
   Obj((K_a :> Obj((K_ref :> Arr(<<Obj((K_ref :> Str(F_y)))>>)))))}

TreeDocs == PlainDocs \cup RefDocs

\* the proxies are counted by MaxProxies wherever they are observed; here
\* none is, and the heap may hold those of a few loads
MaxLoaded == 4

\* loadp(obj), obj being the parsed document
Loadp(doc) ==
  \E r \in {loadp(doc, heap)} :
    /\ Len(r.heap) <= MaxLoaded
    /\ heap' = r.heap
    /\ first' = first \o [i \in 1..(Len(r.heap) - Len(heap)) |-> "none"]
    /\ fetches' = fetches \o [i \in 1..(Len(r.heap) - Len(heap)) |-> 0]
    /\ loaded' = r.tree
    /\ source' = [by |-> "loadp", doc |-> doc]
    /\ UNCHANGED <<seed, store, last, query, result, threads>>

\* loads(text) where the heap has room for its proxies
LoadsText(doc) ==
  /\ Len(loads(doc, heap).heap) <= MaxLoaded
  /\ \E r \in {loads(doc, heap)} :
       /\ heap' = r.heap
       /\ first' = first \o [i \in 1..(Len(r.heap) - Len(heap)) |-> "none"]
       /\ fetches' = fetches \o [i \in 1..(Len(r.heap) - Len(heap)) |-> 0]
       /\ loaded' = r.tree
       /\ source' = [by |-> "loads", doc |-> doc]
       /\ UNCHANGED <<seed, store, last, query, result, threads>>

NextTrees ==
  \/ \E doc \in TreeDocs : LoadsText(doc)
  \/ \E doc \in TreeDocs : Loadp(doc)

SpecTrees == Init /\ [][NextTrees]_vars

(***************************************************************************)
(* Direct calls: refobj.dereference() by the caller, and the caller's own  *)
(* mapping, the one it constructed the Dereferencer with.                  *)
(***************************************************************************)

\* the responses a direct call of RefObject.dereference may meet
ResponsesOnCall(refobj) ==
  IF refobj.ref.t = "str" THEN Responses(urldefrag(refobj.ref.v).url)
  ELSE {NoResponse}

\* refobj.dereference(), called by the consumer itself
CallDereference(p) ==
  /\ p \in 1..Len(heap)
  /\ \E response \in ResponsesOnCall(heap[p]) :
       \E r \in {RefObject_dereference(heap[p], store[heap[p].dereferencer], response)} :
         /\ fetches[p] + Len(r.got) <= MaxFetches
         /\ heap' = [heap EXCEPT ![p] = r.proxy]
         /\ store' = [store EXCEPT ![heap[p].dereferencer] = r.store]
         /\ fetches' = [fetches EXCEPT ![p] = @ + Len(r.got)]
         /\ last' = [op |-> "dereference", arg |-> Null, p |-> p, got |-> r.got,
                     out |-> IF r.out.err = "none" THEN Ok(Null) ELSE r.out]
  /\ UNCHANGED <<seed, first, loaded, query, result, source, threads>>

\* the caller writes mapping[uri] = doc into the mapping it had handed to
\* Dereferencer(store=mapping): _URIDict.__init__ copied the entries into a
\* dict of its own, which this leaves as it is
CallerInserts(uri, doc) ==
  /\ uri \notin DOMAIN seed["user"]
  /\ seed' = [seed EXCEPT !["user"] = (uri :> doc) @@ @]
  /\ UNCHANGED <<store, heap, first, fetches, loaded, last, query, result, source,
                 threads>>

NextCalls ==
  \/ \E ref \in {U_a \o F_y, U_a \o F_n, U_mem \o F_ab} : NewRefObject(ref, <<>>, "user")
  \/ \E p \in 1..MaxProxies : Observe(p, "bool")
  \/ \E p \in 1..MaxProxies : CallDereference(p)
  \/ CallerInserts(U_a, DocA)

SpecCalls == Init /\ [][NextCalls]_vars

(***************************************************************************)
(* Threads: nothing in the module locks, so the lines of one observation   *)
(* interleave with those of another.  A thread record holds the locals of  *)
(* the observation it is in (uri, fragment, document), the URIs it asked   *)
(* requests for in this observation (got), the URIs it has fetched         *)
(* successfully so far (fetched), and whether it ever began an observation *)
(* while another thread was in one (raced).                                *)
(***************************************************************************)

\* the thread leaves its observation with the outcome out
Return(t, out) ==
  /\ threads' = [threads EXCEPT ![t] = [NoThread EXCEPT !.fetched = threads[t].fetched,
                                                        !.raced = threads[t].raced]]
  /\ last' = [op |-> threads[t].op, arg |-> Null, p |-> threads[t].p,
              got |-> threads[t].got, out |-> out]

\* bool(proxy) in thread t, lines 120 to 122 and 134 to 135: a proxy already
\* dereferenced is answered from its object, otherwise the thread enters
\* Dereferencer.dereference with the two parts of the ref
Begin(t, p) ==
  /\ threads[t].pc = "idle"
  /\ p \in 1..Len(heap)
  /\ IF heap[p].dereferenced
     THEN /\ threads' = threads
          /\ last' = [op |-> "bool", arg |-> Null, p |-> p, got |-> <<>>,
                      out |-> Forward("bool", heap[p].object, Null)]
     ELSE /\ \E d \in {urldefrag(heap[p].ref.v)} :
               threads' = [threads EXCEPT ![t] =
                 [@ EXCEPT !.pc = "check", !.p = p, !.op = "bool", !.uri = d.url,
                           !.fragment = d.fragment,
                           !.raced = @ \/ \E o \in Threads \ {t} : threads[o].pc # "idle"]]
          /\ last' = last
  /\ UNCHANGED <<seed, store, heap, first, fetches, loaded, query, result, source>>

\* lines 74 and 75: `uri in self.store`, and the stored document on a hit
Check(t) ==
  /\ threads[t].pc = "check"
  /\ \E st \in {store[heap[threads[t].p].dereferencer]} :
       threads' = [threads EXCEPT ![t] =
         IF URIDict_contains(st, threads[t].uri)
         THEN [@ EXCEPT !.pc = "resolve", !.document = URIDict_getitem(st, threads[t].uri)]
         ELSE [@ EXCEPT !.pc = "fetch"]]
  /\ UNCHANGED <<seed, store, heap, first, fetches, loaded, last, query, result, source>>

\* line 82: requests.get(uri).json(); its exception ends the observation
Fetch(t) ==
  /\ threads[t].pc = "fetch"
  /\ fetches[threads[t].p] < MaxFetches
  /\ fetches' = [fetches EXCEPT ![threads[t].p] = @ + 1]
  /\ \E response \in Responses(threads[t].uri) :
       IF response.err # "none"
       THEN /\ threads' = [threads EXCEPT ![t] =
                 [NoThread EXCEPT !.fetched = threads[t].fetched,
                                  !.raced = threads[t].raced]]
            /\ last' = [op |-> threads[t].op, arg |-> Null, p |-> threads[t].p,
                        got |-> <<threads[t].uri>>, out |-> response]
       ELSE /\ threads' = [threads EXCEPT ![t] =
                 [@ EXCEPT !.pc = "insert", !.document = response.val,
                           !.got = <<threads[t].uri>>,
                           !.fetched = Append(@, threads[t].uri)]]
            /\ last' = last
  /\ UNCHANGED <<seed, store, heap, first, loaded, query, result, source>>

\* line 83: self.store[uri] = result
Insert(t) ==
  /\ threads[t].pc = "insert"
  /\ store' = [store EXCEPT ![heap[threads[t].p].dereferencer] =
                 URIDict_setitem(@, threads[t].uri, threads[t].document)]
  /\ threads' = [threads EXCEPT ![t] = [@ EXCEPT !.pc = "resolve"]]
  /\ UNCHANGED <<seed, heap, first, fetches, loaded, last, query, result, source>>

\* line 79, then lines 136, 137 and 122: the pointer is resolved in the
\* document the thread holds; on success the proxy gets the value and the
\* operation is forwarded to it
Resolve(t) ==
  /\ threads[t].pc = "resolve"
  /\ \E r \in {resolve_pointer(threads[t].document, threads[t].fragment)} :
       IF r.err # "none"
       THEN heap' = heap /\ Return(t, r)
       ELSE /\ heap' = [heap EXCEPT ![threads[t].p] =
                          [@ EXCEPT !.object = r.val, !.dereferenced = TRUE]]
            /\ Return(t, Forward("bool", r.val, Null))
  /\ UNCHANGED <<seed, store, first, fetches, loaded, query, result, source>>

NextThreads ==
  \/ \E ref \in {U_a \o F_y, U_a \o F_n} : NewRefObject(ref, <<>>, "default")
  \/ \E t \in Threads, p \in 1..MaxProxies : Begin(t, p)
  \/ \E t \in Threads : Check(t)
  \/ \E t \in Threads : Fetch(t)
  \/ \E t \in Threads : Insert(t)
  \/ \E t \in Threads : Resolve(t)

SpecThreads == Init /\ [][NextThreads]_vars

(***************************************************************************)
(* Chains of proxies: a loaded document registered in the store under its  *)
(* own URI holds the proxies its references point to, so the object of a   *)
(* proxy can be a proxy.  func(refobj.object) on line 122 then enters the  *)
(* wrapper of that proxy, one frame deeper; Python ends a recursion deeper *)
(* than its limit with RecursionError.  `query` holds the observation      *)
(* under way (the proxy observed, the proxy whose wrapper is entered next, *)
(* the depth), `result` its outcome.  The references of these documents    *)
(* are not fetched (mem: is no scheme of requests) and nothing but the     *)
(* observation runs while it runs, so what RefObject.dereference does on   *)
(* each proxy is settled when the observation begins: it is computed then  *)
(* (query.given) and taken from there by the frame that calls it.          *)
(***************************************************************************)

\* the depth at which the interpreter raises RecursionError
RecursionLimit == 4

\* documents whose references point into the document itself, registered as
\* mem://x: a -> a; a -> b -> a; a -> b -> b; a -> b -> 7
ChainDocs ==
  LET R(k) == Obj((K_ref :> Str(U_mem \o <<"#", "/">> \o k))) IN
  {Obj((K_a :> R(K_a))),
   Obj((K_a :> R(K_b)) @@ (K_b :> R(K_a))),
   Obj((K_a :> R(K_b)) @@ (K_b :> R(K_b))),
   Obj((K_a :> R(K_b)) @@ (K_b :> R(K_y)) @@ (K_y :> Num(7)))}

\* a call that hands back a proxy it meets instead of entering its wrapper
Called_once(op, object, arg, depth) ==
  IF object.t = "ref" THEN [next |-> 0, out |-> Ok(object)]
  ELSE [next |-> 0, out |-> Forward(op, object, arg)]

\* func(refobj.object, *args) of line 122 at the given depth: the builtin on
\* a proxy calls the method that `dereferencing` wrapped, on a value it
\* answers
Called(op, object, arg, depth) ==
  IF object.t = "ref"
  THEN IF depth >= RecursionLimit
       THEN [next |-> 0, out |-> Raise("RecursionError", Null)]
       ELSE [next |-> object.v, out |-> Unset]
  ELSE [next |-> 0, out |-> Forward(op, object, arg)]

\* an observation is under way
Chasing == query.kind = "chain" /\ result = Unset

\* the caller registers the loaded document in the default store:
\* proxy.dereferencer.store[uri] = document
Register ==
  /\ ~Chasing
  /\ loaded # Null
  /\ store' = [store EXCEPT !["default"] = URIDict_setitem(@, U_mem, loaded)]
  /\ UNCHANGED <<seed, heap, first, fetches, loaded, last, query, result, source,
                 threads>>

\* RefObject.dereference on each proxy of the heap, as the store is: the
\* sets of what it can give, one for each response
Dereferenced(h, st, op) ==
  [q \in 1..Len(h) |->
     IF h[q].dereferenced THEN {[proxy |-> h[q], store |-> st[h[q].dereferencer],
                                 out |-> Ok(Null), got |-> <<>>]}
     ELSE {RefObject_dereference(h[q], st[h[q].dereferencer], response) :
             response \in ResponsesFor(h[q], op)}]

\* a consumer begins op(proxy)
Start(p, op) ==
  /\ ~Chasing
  /\ p \in 1..Len(heap)
  /\ \A q \in 1..Len(heap) : fetches[q] < MaxFetches
  /\ \E all \in {Dereferenced(heap, store, op)} :
       \E given \in {g \in [1..Len(heap) -> UNION {all[q] : q \in 1..Len(heap)}] :
                       \A q \in 1..Len(heap) : g[q] \in all[q]} :
         query' = [kind |-> "chain", op |-> op, p |-> p, at |-> p, depth |-> 1,
                   given |-> given]
  /\ result' = Unset
  /\ UNCHANGED <<seed, store, heap, first, fetches, loaded, last, source, threads>>

\* one frame of the wrapper, lines 120 to 122, on the proxy query.at: it is
\* dereferenced if that was not done, an exception ends the observation, and
\* the operation is called on its object
Enter ==
  /\ Chasing
  /\ \E r \in {IF ~heap[query.at].dereferenced
               THEN query.given[query.at]
               ELSE [proxy |-> heap[query.at],
                     store |-> store[heap[query.at].dereferencer],
                     out |-> Ok(Null), got |-> <<>>]} :
       /\ fetches[query.at] + Len(r.got) <= MaxFetches
       /\ heap' = [heap EXCEPT ![query.at] = r.proxy]
       /\ store' = [store EXCEPT ![heap[query.at].dereferencer] = r.store]
       /\ fetches' = [fetches EXCEPT ![query.at] = @ + Len(r.got)]
       /\ IF r.out.err # "none"
          THEN result' = r.out /\ query' = query
          ELSE \E c \in {Called(query.op, r.proxy.object, ArgOf(query.op), query.depth)} :
                 /\ result' = c.out
                 /\ query' = IF c.next = 0 THEN query
                             ELSE [query EXCEPT !.at = c.next, !.depth = @ + 1]
  /\ UNCHANGED <<seed, first, loaded, last, source, threads>>

NextChain ==
  \/ \E doc \in ChainDocs : ~Chasing /\ Loads(doc)
  \/ Register
  \/ \E p \in 1..MaxProxies, op \in {"bool", "repr", "iter"} : Start(p, op)
  \/ Enter

\* the interpreter runs an observation that was begun
SpecChain == Init /\ [][NextChain]_vars /\ WF_vars(Enter)

(***************************************************************************)
(* The properties.                                                         *)
(***************************************************************************)

\* C1: constructing a RefObject performs no fetch: as long as a proxy has
\* not been observed through the wrapper, no call of requests.get was made
\* for it; and when its first observation found the base document missing
\* from the store and fetched it, exactly one call was made for it, however
\* many observations followed.
C1_LazyAndMemoized ==
  \A p \in 1..Len(heap) :
    /\ first[p] = "none" => fetches[p] = 0
    /\ first[p] = "fetched" => fetches[p] = 1

\* a proxy whose first observation fetched, observed once more without a fetch
C1_ObservedAgain ==
  \E p \in 1..Len(heap) :
    /\ first[p] = "fetched" /\ fetches[p] = 1
    /\ last.p = p /\ last.op = "bool" /\ last.got = <<>>

\* C2: after loads of {"x": {"$ref": "#/y"}, "y": 7}, the observation of the
\* proxy at x gives what it gives on 7, and no call of requests.get is made.
C2_SameDocumentReference ==
  (/\ loaded.t = "obj" /\ K_x \in DOMAIN loaded.v /\ loaded.v[K_x].t = "ref"
   /\ last.op = "str" /\ last.p = loaded.v[K_x].v
   /\ heap[last.p].ref = Str(F_y))
  => (last.out = Apply("str", Num(7), Null) /\ last.got = <<>>)

\* C3: an operation on a proxy (==, in, iter, str, repr, bool, getattr, [])
\* resolves the proxy if that was not done, and then gives what the same
\* operation gives on the resolved value; it leaves the proxy unresolved
\* only when the resolution failed.
C3_Transparent ==
  last.op # "none" =>
    IF heap[last.p].dereferenced
    THEN last.out = OnValue(last.op, heap[last.p].object, last.arg)
    ELSE last.out.err \in {"FetchError", "LookupError"}

\* the base URI of a proxy's reference
Base(p) == urldefrag(heap[p].ref.v).url

\* whether Dereferencer d was constructed with a document for the URI
Preseeded(d, uri) == \E k \in DOMAIN seed[d] : normalize(k) = normalize(uri)

\* the proxies that share the store entry of p
Sharing(p) ==
  {q \in 1..Len(heap) : /\ heap[q].dereferencer = heap[p].dereferencer
                        /\ normalize(Base(q)) = normalize(Base(p))}

\* two proxies of one Dereferencer, their references differing in the
\* fragment only, the base document not pre-seeded, both observed
BothObserved(p, q) ==
  /\ p # q
  /\ heap[p].dereferencer = heap[q].dereferencer
  /\ Base(p) = Base(q)
  /\ heap[p].ref # heap[q].ref
  /\ ~Preseeded(heap[p].dereferencer, Base(p))
  /\ Sharing(p) = {p, q}
  /\ first[p] # "none"
  /\ first[q] # "none"

C5_AppendOnlyNoRefetch ==
  [][/\ \A d \in Derefs : \A k \in DOMAIN store[d] :
          k \in DOMAIN store'[d] /\ store'[d][k] = store[d][k]
     /\ \A p \in 1..Len(heap) :
          fetches'[p] > fetches[p]
            => last'.got[1] \notin DOMAIN store[heap[p].dereferencer]]_vars

\* C6: requests.get is never called for a URI whose normalization is the
\* normalization of a key of the store, pre-seeded or fetched.
C6_NormalizedKeyHits ==
  [][\A p \in 1..Len(heap) :
       fetches'[p] > fetches[p]
         => \A k \in DOMAIN store[heap[p].dereferencer] :
              normalize(k) # normalize(last'.got[1])]_vars

\* C7: every key of every store is a normalized URI without fragment.
C7_KeysNormalized ==
  \A d \in Derefs : \A k \in DOMAIN store[d] :
    normalize(k) = k /\ ~HasChar(k, "#")

\* the document stored under mem://x
Stored == seed["user"][U_mem]

RECURSIVE Follow(_, _, _)
\* the value reached by looking up the keys of a path in turn; a key absent
\* from the mapping reached is the error of the pointer; a value reached
\* that is no mapping is none of the cases
Follow(doc, path, ptr) ==
  IF path = <<>> THEN Ok(doc)
  ELSE IF doc.t # "obj" THEN Raise("n/a", Null)
  ELSE IF Head(path) \notin DOMAIN doc.v THEN Raise("LookupError", Str(ptr))
  ELSE Follow(doc.v[Head(path)], Tail(path), ptr)

\* C8: on nested mappings the pointer /k1/.../kn resolves to the value reached
\* by looking up k1, ..., kn in turn, the empty pointer to the whole document,
\* and a pointer with a key absent from the mapping reached raises the
\* error of resolve_pointer.
C8_NestedMappings ==
  (/\ query.kind = "keys"
   /\ result # Unset
   /\ Follow(Stored, query.path, query.pointer).err # "n/a")
  => result = Follow(Stored, query.path, query.pointer)

\* C9, as stated: for every key that holds '/' or '~', the pointer made of
\* its segment ('~' written ~0, '/' written ~1) resolves to the value of that
\* key.
C9_EveryKey ==
  (query.kind = "escape" /\ result # Unset) => result = Ok(Num(1))

\* a text that holds a percent escape: '%' and two hexadecimal digits
PercentEscaped(s) ==
  \E i \in 1..(Len(s) - 2) :
    s[i] = "%" /\ s[i + 1] \in HexDigits /\ s[i + 2] \in HexDigits

\* C9, amended: for every key that holds '/' or '~' and no percent escape,
\* the pointer made of its segment resolves to the value of that key (the
\* pointer is percent-decoded before it is split).
C9_KeysWithoutPercentEscape ==
  (query.kind = "escape" /\ result # Unset /\ ~PercentEscaped(query.path[1]))
  => result = Ok(Num(1))

\* the key ~1 is reached by the segment ~01, the key / beside it is not
C9_TildeOne ==
  /\ query.kind = "escape"
  /\ query.path = << <<"~", "1">> >>
  /\ query.pointer = <<"/", "~", "0", "1">>
  /\ <<"/">> \in DOMAIN Stored.v
  /\ result = Ok(Num(1))

\* the integer a token of decimal digits stands for
DecimalOf(token) ==
  IF token = <<>> THEN 0
  ELSE LET val[i \in 0..Len(token)] ==
             IF i = 0 THEN 0 ELSE 10 * val[i - 1] + HexVal(token[i])
       IN  val[Len(token)]

RECURSIVE Element(_, _)
\* the value a path reaches, a token being an index where an array is reached
Element(doc, path) ==
  IF path = <<>> THEN doc
  ELSE IF doc.t = "arr" THEN Element(doc.v[DecimalOf(Head(path)) + 1], Tail(path))
  ELSE Element(doc.v[Head(path)], Tail(path))

\* C10: where the walk reaches an array, the token is read as a decimal
\* index and the walk goes on with the element at that index.
C10_ArrayIndex ==
  (query.kind = "index" /\ result # Unset)
  => result = Ok(Element(Stored, query.path))

\* C11: every walk that cannot succeed (a missing key, an index out of range
\* or no number, a step into a string, number, boolean or null) raises the
\* error of resolve_pointer with the pointer, and nothing else.
C11_ResolutionError ==
  (query.kind = "fails" /\ result # Unset)
  => result = Raise("LookupError", Str(query.pointer))

\* the fragment without one leading '/'
StripOne(s) == IF s # <<>> /\ s[1] = "/" THEN Tail(s) ELSE s

\* the tokens of a fragment: percent-decoded, one leading '/' stripped, split
\* on '/'; none for the empty fragment
TokensOf(fragment) ==
  IF fragment = <<>> THEN <<>> ELSE Split(StripOne(unquote(fragment)), "/")

\* C19: the tokens the resolver walks are those of the fragment percent-decoded,
\* with exactly one leading '/' stripped, split on '/': //a gives the empty
\* token and then a.
C19_Tokens ==
  (query.kind # "none" /\ result # Unset)
  => Parts(query.pointer) = TokensOf(query.pointer)

RECURSIVE HasRefNode(_)
\* whether some mapping of a parsed document has the key $ref
HasRefNode(doc) ==
  CASE doc.t = "obj" -> K_ref \in DOMAIN doc.v \/ \E k \in DOMAIN doc.v : HasRefNode(doc.v[k])
    [] doc.t = "arr" -> \E i \in 1..Len(doc.v) : HasRefNode(doc.v[i])
    [] OTHER -> FALSE

\* C12: loading a document in which no mapping has the key $ref, by loads or
\* by loadp, returns the document itself: no proxy, every key, element and
\* scalar as it was.
C12_PlainUnchanged ==
  (source.by # "none" /\ ~HasRefNode(source.doc)) => loaded = source.doc

\* a nested document without $ref, loaded by loadp
C12_NestedByLoadp ==
  /\ source.by = "loadp"
  /\ source.doc.t = "obj" /\ K_a \in DOMAIN source.doc.v
  /\ ~HasRefNode(source.doc)
  /\ loaded = source.doc

RECURSIVE Shape(_, _)
\* a loaded tree with each proxy written out: its ref (itself a tree), and
\* its state
Shape(tree, h) ==
  CASE tree.t = "ref" ->
         [t |-> "proxy",
          v |-> [ref |-> Shape(h[tree.v].ref, h),
                 dereferenced |-> h[tree.v].dereferenced,
                 object |-> h[tree.v].object]]
    [] tree.t = "obj" -> Obj([k \in DOMAIN tree.v |-> Shape(tree.v[k], h)])
    [] tree.t = "arr" -> Arr([i \in 1..Len(tree.v) |-> Shape(tree.v[i], h)])
    [] OTHER -> tree

\* what the other loader gives on the document of the latest load
OtherLoader ==
  IF source.by = "loads" THEN loadp(source.doc, <<>>) ELSE loads(source.doc, <<>>)

\* C16: loads(s) and loadp(parse(s)) give trees with proxies at the same
\* positions, the same ref in each, all unresolved, and the same nodes
\* everywhere else.
C16_LoadersAgree ==
  source.by # "none"
    => \E r \in {OtherLoader} : Shape(loaded, heap) = Shape(r.tree, r.heap)

\* C13: a proxy is unresolved, with no value, or resolved; over observations
\* and direct calls of dereference a resolved proxy stays resolved and keeps
\* the value of its first successful resolution.
C13_ResolvedForGood ==
  [][/\ \A p \in 1..Len(heap) : ~heap[p].dereferenced => heap[p].object = Null
     /\ \A p \in 1..Len(heap) :
          heap[p].dereferenced
            => heap'[p].dereferenced /\ heap'[p].object = heap[p].object]_vars

\* a proxy resolved by an observation that fetched, then dereferenced again
\* by a direct call
C13_CalledAgain ==
  /\ last.op = "dereference" /\ last.out = Ok(Null) /\ last.got = <<>>
  /\ first[last.p] = "fetched"
  /\ heap[last.p].dereferenced /\ heap[last.p].object = Num(8)

\* C15: the store of a Dereferencer constructed with a mapping is that
\* mapping: what the Dereferencer inserts is in the caller's mapping, and what
\* the caller adds is in the store.
C15_SharedByReference == store["user"] = seed["user"]

\* C17: the proxies of all loads share the default Dereferencer: once the
\* observation of one of them has fetched a base document, requests.get is
\* not called for that base URI on behalf of a proxy of another load.
C17_DefaultStoreShared ==
  [][\A p, q \in 1..Len(heap) :
       (/\ p # q
        /\ first[p] = "fetched"
        /\ heap[p].ref.t = "str" /\ heap[q].ref.t = "str"
        /\ normalize(Base(p)) = normalize(Base(q)))
       => fetches'[q] = fetches[q]]_vars

\* two loads, the proxy of the first fetched, that of the second did not
C17_SecondLoadReuses ==
  \E p, q \in 1..Len(heap) :
    /\ p # q
    /\ heap[p].dereferencer = "default" /\ heap[q].dereferencer = "default"
    /\ first[p] = "fetched" /\ first[q] = "nofetch"
    /\ heap[q].dereferenced /\ fetches[q] = 0
    /\ Base(p) = Base(q)

\* C20: when the dereference of an observation fails, by the fetch or by the
\* pointer, the observer gets the error and the proxy is as it was,
\* unresolved and without value; a failed fetch leaves the store as it was.
C20_FailureLeavesUnresolved ==
  [][\A p \in 1..Len(heap) :
       (/\ last' # last
        /\ last'.p = p
        /\ last'.op \in Intercepted
        /\ ~heap[p].dereferenced)
       => /\ last'.out.err # "none"
             => heap'[p] = heap[p] /\ ~heap'[p].dereferenced /\ heap'[p].object = Null
          /\ ~heap'[p].dereferenced => last'.out.err # "none"
          /\ last'.out.err = "FetchError" => store' = store /\ last'.got # <<>>]_vars

\* an observation failed by the fetch, and the next observation called
\* requests.get again
C20_FetchedAgain ==
  \E p \in 1..Len(heap) :
    /\ first[p] = "failed" /\ fetches[p] = 2
    /\ last.p = p /\ last.op = "bool" /\ last.out.err = "FetchError"
    /\ ~heap[p].dereferenced /\ heap[p].object = Null

\* the successful fetches so far, as pairs of a thread and a position in the
\* list of what it fetched
Fetched == {x \in Threads \X (1..(MaxProxies * MaxFetches)) : x[2] <= Len(threads[x[1]].fetched)}

\* C14: when no observation ever began while another was under way (single-
\* threaded execution), a base document that was fetched successfully is
\* fetched once only; with interleaved first observations it can be fetched
\* twice (the witness).
C14_OnceWhenSingleThreaded ==
  (\A t \in Threads : ~threads[t].raced)
    => \A x, y \in Fetched :
         normalize(threads[x[1]].fetched[x[2]]) = normalize(threads[y[1]].fetched[y[2]])
           => x = y

\* two threads, each in the first observation of a proxy of its own, both
\* fetched the base document the two proxies share
C14_FetchedTwice ==
  /\ Len(heap) = 2
  /\ Base(1) = Base(2)
  /\ heap[1].dereferenced /\ heap[2].dereferenced
  /\ fetches[1] = 1 /\ fetches[2] = 1
  /\ threads[1].fetched = <<U_a>> /\ threads[2].fetched = <<U_a>>
  /\ \E t \in Threads : threads[t].raced

\* where the reference of proxy p leads, as the heap and the store are
Hop(p) ==
  IF heap[p].dereferenced THEN Ok(heap[p].object)
  ELSE RefObject_dereference(heap[p], store[heap[p].dereferencer], NoResponse).out

RECURSIVE Hops(_, _)
\* n hops from proxy p all lead to a proxy
Hops(p, n) ==
  IF n = 0 THEN TRUE
  ELSE \E r \in {Hop(p)} : r.err = "none" /\ r.val.t = "ref" /\ Hops(r.val.v, n - 1)

\* the reference chain of proxy p never leaves the proxies: it runs into a
\* cycle
Cyclic(p) == Hops(p, Len(heap))

\* what RefObject.dereference does on the proxy entered next is what was
\* computed when the observation began
GivenAsComputed ==
  (Chasing /\ ~heap[query.at].dereferenced)
    => query.given[query.at] \in Dereferenced(heap, store, query.op)[query.at]

====
